---- MODULE Spec2Model ----
(***************************************************************************)
(* Wix integration for Frappe Items: the Item document hooks               *)
(* (after_insert -> create_wix_product, on_update -> update_wix_product),  *)
(* the eligibility filter, the stored wix_product_id and the lazily        *)
(* created custom field, in the two wix_api modules of the repository:     *)
(*   wix_integration/utils/wix_api.py                 (named by hooks.py)  *)
(*   wix_integration/wix_integration/utils/wix_api.py (the inner package)  *)
(*                                                                         *)
(* One hook invocation is one step: the host runs a hook to completion     *)
(* inside the request that saved the document.  What the hook cannot       *)
(* decide is an input of the step: the document that was saved, the        *)
(* answer of the remote API, and which of the frappe calls raise.  An      *)
(* operator that makes such a call yields the set of results it can end    *)
(* with.                                                                   *)
(***************************************************************************)
EXTENDS Integers, Sequences, FiniteSets, TLC

\* ------------------------------------------------------------------ bounds

\* Products the remote API creates in one behaviour (each gets a fresh id).
MaxProducts == 2

\* ------------------------------------------------------------- Python values

\* None, and a present value v, of an optional attribute.
None == << >>

Some(v) == <<v>>

\* Python truthiness of None / a number / an id: None and 0 are falsy.
truthy(v) == v # None /\ v[1] # 0

\* ------------------------------------------------------------------- domains

Items == {"SKU1", "SKU2"}

HookedModule == "wix_integration.utils.wix_api"

InnerModule == "wix_integration.wix_integration.utils.wix_api"

Modules == {HookedModule, InnerModule}

Flags == {0, 1}

Rates == {None, Some(-1), Some(0), Some(5)}

\* An Item document: the attributes should_sync_item reads, and
\* is_fixed_asset, which get_sync_filters lists as an exclude condition.
Docs == [disabled : Flags, is_sales_item : Flags, standard_rate : Rates,
         is_fixed_asset : Flags]

VARIABLES
    module,        \* the wix_api module whose functions serve the hooks
    inserted,      \* the items that exist as Item documents
    stored,        \* Item.wix_product_id of every item (tabItem column)
    customField,   \* the Custom Field Item.wix_product_id exists
    products,      \* per item, the ids of the products created at the remote API
    failedCreate,  \* items whose latest hook invocation made a create call that failed
    last,          \* the latest document event and what its hook did
    item,          \* the Item document handed to the mapper
    currency,      \* the global default currency of the host
    payload,       \* the product data the mapper built, None before
    sent,          \* the product data handed to the create call, None before
    proc,          \* per item, where its create_wix_product invocation stands
    call,          \* a call of one of the utility functions, with its inputs
    result         \* what that call returned, None before

hostvars == <<inserted, stored, customField, products, failedCreate, last>>

mapvars == <<item, currency, payload, sent>>

utilvars == <<call, result>>

vars == <<module, hostvars, mapvars, proc, utilvars>>

\* --------------------------------------------------------------- eligibility

Ret(b) == [raised |-> FALSE, value |-> b]

Raise == [raised |-> TRUE, value |-> FALSE]

\* should_sync_item without the sign test: every truthy rate passes.
should_sync_item_no_sign_test(doc) ==
    IF doc.disabled # 0 THEN Ret(FALSE)
    ELSE IF doc.is_sales_item = 0 THEN Ret(FALSE)
    ELSE IF ~truthy(doc.standard_rate) THEN Ret(FALSE)
    ELSE Ret(TRUE)

\* should_sync_item(doc): three early returns, then True.  `not rate or
\* rate <= 0` short-circuits, so None never reaches the comparison (which
\* would raise TypeError).
should_sync_item(doc) ==
    IF doc.disabled # 0 THEN Ret(FALSE)
    ELSE IF doc.is_sales_item = 0 THEN Ret(FALSE)
    ELSE IF ~truthy(doc.standard_rate) THEN Ret(FALSE)
    ELSE IF doc.standard_rate = None THEN Raise
    ELSE IF doc.standard_rate[1] <= 0 THEN Ret(FALSE)
    ELSE Ret(TRUE)

\* ------------------------------------------------------------------ database
\* A frappe call that can raise has two outcomes; an operator that makes
\* such a call yields the set of results it can end with.

\* The part of the world a hook reads and writes.
DB == [stored |-> stored, customField |-> customField, products |-> products]

\* get_wix_product_id: the stored id, or None when frappe.db.get_value
\* raises (bare except).
get_wix_product_id(db, i) == {db.stored[i], None}

\* create_wix_product_id_field: inserts the Custom Field; when the insert
\* raises, the error is logged and swallowed.
create_wix_product_id_field(db) == {[db EXCEPT !.customField = TRUE], db}

\* store_wix_product_id that writes the id without looking after the custom
\* field.
store_wix_product_id_no_field(db, i, id) ==
    {db, [db EXCEPT !.stored[i] = id]}

\* store_wix_product_id: frappe.db.exists (may raise), the custom field when
\* it is missing, then frappe.db.set_value (may raise, and does when the
\* column is missing because the field insert failed).  Every exception is
\* logged and swallowed.
store_wix_product_id(db, i, id) ==
    {db} \cup
    UNION {IF d.customField THEN {[d EXCEPT !.stored[i] = id], d} ELSE {d} :
           d \in (IF db.customField THEN {db}
                  ELSE create_wix_product_id_field(db))}

\* ---------------------------------------------------------------- remote API

\* frappe.generate_hash: the id of the next product, fresh each time.
generate_hash(db) == Cardinality(UNION {db.products[i] : i \in Items}) + 1

\* call_wix_create_product_api: what the remote API can answer.  A product
\* with its id (the product then exists remotely, under the item's sku), a
\* success whose body carries no product id, or an error.
call_wix_create_product_api(db, i) ==
    {[success |-> TRUE, product_id |-> Some(generate_hash(db)),
      db |-> [db EXCEPT !.products[i] = @ \cup {generate_hash(db)}]],
     [success |-> TRUE, product_id |-> None, db |-> db],
     [success |-> FALSE, product_id |-> None, db |-> db]}

\* call_wix_update_product_api: success or error.
call_wix_update_product_api(product_id) == {TRUE, FALSE}

\* --------------------------------------------------------------------- hooks

\* The record of one hook invocation, before anything happened.
Run0(db) ==
    [db |-> db, path |-> "none", fellBack |-> FALSE, creates |-> 0,
     updates |-> 0, apiOk |-> FALSE, returned |-> None, target |-> None,
     msg |-> "none", logged |-> FALSE, exc |-> FALSE, raised |-> FALSE]

\* handle_wix_api_error: an Error Log entry and a red message; raises when
\* frappe.log_error raises.
handle_wix_api_error(run) ==
    {[run EXCEPT !.logged = TRUE, !.msg = "red"], [run EXCEPT !.exc = TRUE]}

\* The hooks' `except Exception` block: frappe.log_error, then logger.error.
\* An exception raised here leaves the hook.
except_block(run) ==
    IF ~run.exc THEN {run}
    ELSE {[run EXCEPT !.exc = FALSE, !.logged = TRUE],
          [run EXCEPT !.exc = FALSE, !.raised = TRUE]}

\* after_create_call without the test of `success`: the id of the response
\* is stored whatever the call answered.
after_create_call_unchecked(m, i, api) ==
    LET called == [Run0(api.db) EXCEPT !.path = "create", !.creates = 1,
                                       !.apiOk = api.success,
                                       !.returned = api.product_id]
    IN  {[called EXCEPT !.db = d, !.msg = "green"] :
         d \in store_wix_product_id(api.db, i, api.product_id)}

\* create_wix_product after the create call returned `api`: the success
\* branch (the hooked module stores only a truthy id; the inner module
\* stores response.get("product_id") as it is) or the error branch.
after_create_call(m, i, api) ==
    LET called == [Run0(api.db) EXCEPT !.path = "create", !.creates = 1,
                                       !.apiOk = api.success,
                                       !.returned = api.product_id]
    IN  IF ~api.success THEN handle_wix_api_error(called)
        ELSE IF m = HookedModule /\ ~truthy(api.product_id) THEN {called}
        ELSE {[called EXCEPT !.db = d, !.msg = "green"] :
              d \in store_wix_product_id(api.db, i, api.product_id)}

\* The try body of create_wix_product.
create_body(m, db, i, doc) ==
    LET e == should_sync_item(doc)
    IN  IF e.raised THEN {[Run0(db) EXCEPT !.exc = TRUE]}
        ELSE IF ~e.value THEN {[Run0(db) EXCEPT !.path = "skip"]}
        ELSE UNION {after_create_call(m, i, api) :
                    api \in call_wix_create_product_api(db, i)}

\* create_wix_product(doc): the after_insert hook.
create_wix_product(m, db, i, doc) ==
    UNION {except_block(r) : r \in create_body(m, db, i, doc)}

\* after_update_call that writes the id of the response to the item: the
\* resolved id after a success, None after a failure.
after_update_call_storing(m, db, wix_product_id, ok) ==
    LET written == [db EXCEPT !.stored =
                       [j \in Items |->
                           IF db.stored[j] # wix_product_id THEN db.stored[j]
                           ELSE IF ok THEN wix_product_id ELSE None]]
        called == [Run0(written) EXCEPT !.path = "update", !.updates = 1,
                                        !.target = wix_product_id,
                                        !.apiOk = ok]
    IN  IF ~ok THEN handle_wix_api_error(called)
        ELSE IF m = HookedModule THEN {[called EXCEPT !.msg = "green"]}
        ELSE {called}

\* update_wix_product after the update call returned.
after_update_call(m, db, wix_product_id, ok) ==
    LET called == [Run0(db) EXCEPT !.path = "update", !.updates = 1,
                                   !.target = wix_product_id, !.apiOk = ok]
    IN  IF ~ok THEN handle_wix_api_error(called)
        ELSE IF m = HookedModule THEN {[called EXCEPT !.msg = "green"]}
        ELSE {called}

\* update_with that tries again: a failed update call is followed by a
\* create call in the same invocation.
update_with_retry(m, db, i, doc, wix_product_id) ==
    IF ~truthy(wix_product_id)
    THEN {[c EXCEPT !.fellBack = TRUE, !.exc = c.raised, !.raised = FALSE] :
          c \in create_wix_product(m, db, i, doc)}
    ELSE UNION {IF ok THEN after_update_call(m, db, wix_product_id, ok)
                ELSE {[c EXCEPT !.updates = 1, !.exc = c.raised,
                                !.raised = FALSE] :
                      c \in create_wix_product(m, db, i, doc)} :
                ok \in call_wix_update_product_api(wix_product_id)}

\* update_wix_product with the id the lookup gave: without one, the whole
\* of create_wix_product runs (an exception leaving it is raised here);
\* with one, the update call.
update_with(m, db, i, doc, wix_product_id) ==
    IF ~truthy(wix_product_id)
    THEN {[c EXCEPT !.fellBack = TRUE, !.exc = c.raised, !.raised = FALSE] :
          c \in create_wix_product(m, db, i, doc)}
    ELSE UNION {after_update_call(m, db, wix_product_id, ok) :
                ok \in call_wix_update_product_api(wix_product_id)}

\* update_body without the early return for an item that is not to be synced.
update_body_no_skip(m, db, i, doc) ==
    UNION {update_with(m, db, i, doc, id) : id \in get_wix_product_id(db, i)}

\* The try body of update_wix_product.
update_body(m, db, i, doc) ==
    LET e == should_sync_item(doc)
    IN  IF e.raised THEN {[Run0(db) EXCEPT !.exc = TRUE]}
        ELSE IF ~e.value THEN {[Run0(db) EXCEPT !.path = "skip"]}
        ELSE UNION {update_with(m, db, i, doc, id) :
                    id \in get_wix_product_id(db, i)}

\* update_wix_product(doc): the on_update hook.
update_wix_product(m, db, i, doc) ==
    UNION {except_block(r) : r \in update_body(m, db, i, doc)}

\* ------------------------------------------------------------- configuration

\* WIX_SITE_ID of the hooked module (the kokofresh site).
WIX_SITE_ID == "a57521a4-3ecd-40b8-852c-462f2af558d2"

\* WIX_SITES and DEFAULT_WIX_SITE of the inner module.
WIX_SITES == [dev |-> "63a7b738-6d1c-447a-849a-fab973366a06",
              kokofresh |-> "a57521a4-3ecd-40b8-852c-462f2af558d2",
              byte_catalyst |-> "bc24ec89-d58d-4b00-9c00-997dc4bb2025"]

DEFAULT_WIX_SITE == "dev"

\* get_wix_site_id() of the inner module.
get_wix_site_id == WIX_SITES[DEFAULT_WIX_SITE]

\* get_wix_settings(): the shipped settings.
get_wix_settings ==
    [enabled |-> TRUE,
     default_site |-> Some("dev"),
     sites |-> [dev |-> [site_id |->
                             Some("63a7b738-6d1c-447a-849a-fab973366a06"),
                         name |-> "Dev Sitex1077548723"],
                kokofresh |-> [site_id |->
                             Some("a57521a4-3ecd-40b8-852c-462f2af558d2"),
                         name |-> "kokofresh"],
                byte_catalyst |-> [site_id |->
                             Some("bc24ec89-d58d-4b00-9c00-997dc4bb2025"),
                         name |-> "The Byte Catalyst | Impact Mentor"]]]

\* The site a remote call of module m is made for: the hooked module names
\* WIX_SITE_ID, the inner module passes get_wix_site_id().
site_id_of_call(m) ==
    IF m = HookedModule THEN WIX_SITE_ID ELSE get_wix_site_id

\* ------------------------------------------------------------------- strings
\* A Python str is the sequence of its characters.

\* Longest item_code.
MaxCodeLen == 2

\* An upper-case letter, a character that is not URL-friendly, and the dash.
Chars == {"A", " ", "-"}

Codes == UNION {[1..k -> Chars] : k \in 0..MaxCodeLen}

\* Python truthiness of None / a str: None and "" are falsy.
nonempty(v) == v # None /\ v[1] # << >>

Digit(d) == <<"0", "1", "2", "3", "4", "5", "6", "7", "8", "9">>[d + 1]

RECURSIVE digits(_)
digits(n) == IF n < 10 THEN <<Digit(n)>>
             ELSE digits(n \div 10) \o <<Digit(n % 10)>>

\* str(v) of None or a number.
str(v) == IF v = None THEN <<"N", "o", "n", "e">>
          ELSE IF v[1] < 0 THEN <<"-">> \o digits(-v[1])
          ELSE digits(v[1])

\* str.lower()
lower(c) == IF c = "A" THEN "a" ELSE c

\* re.sub(r'-+', '-', s)
RECURSIVE collapse(_)
collapse(s) == IF Len(s) <= 1 THEN s
               ELSE IF s[1] = "-" /\ s[2] = "-" THEN collapse(Tail(s))
               ELSE <<s[1]>> \o collapse(Tail(s))

\* s.strip('-')
RECURSIVE strip(_)
strip(s) == IF s = << >> THEN s
            ELSE IF s[1] = "-" THEN strip(Tail(s))
            ELSE IF s[Len(s)] = "-" THEN strip(SubSeq(s, 1, Len(s) - 1))
            ELSE s

\* generate_product_slug(item_code): lower-case, every character outside
\* [a-zA-Z0-9-_] becomes a dash, runs of dashes collapse, outer dashes go.
generate_product_slug(item_code) ==
    strip(collapse([k \in 1..Len(item_code) |->
                       IF lower(item_code[k]) \in {"a", "-"}
                       THEN lower(item_code[k]) ELSE "-"]))

\* ------------------------------------------------------------------- mapping

Names == {None, Some(<< >>), Some(<<"A", " ">>)}

Descriptions == {None, Some(<< >>), Some(<<"A">>)}

Weights == {None, Some(0), Some(2)}

Quantities == {None, Some(0), Some(7)}

\* frappe.defaults.get_global_default("currency")
Currencies == {None, Some(<<"E", "U", "R">>)}

\* An Item document as the mapper reads it.
ItemDocs == [item_code : {Some(c) : c \in Codes}, item_name : Names,
             description : Descriptions, standard_rate : Rates,
             weight_per_unit : Weights, projected_qty : Quantities,
             disabled : Flags, is_sales_item : Flags]

\* The name without the fallback to the item_code.
product_name_only(doc) == doc.item_name

\* doc.item_name or doc.item_code
product_name(doc) ==
    IF nonempty(doc.item_name) THEN doc.item_name ELSE doc.item_code

\* The weight taken whenever weight_per_unit is not None.
variant_weight_unchecked(doc) == doc.weight_per_unit

\* physicalProperties.weight of the hooked module's variant: set under
\* `if doc.weight_per_unit:`, absent (None) otherwise.
variant_weight(doc) ==
    IF truthy(doc.weight_per_unit) THEN doc.weight_per_unit ELSE None

\* map_item that takes the slug for the variant's sku.
map_item_slug_as_sku(doc) ==
    [name |-> product_name(doc),
     productType |-> Some("PHYSICAL"),
     slug |-> None,
     plainDescription |-> IF nonempty(doc.description) THEN doc.description
                          ELSE None,
     visible |-> Some(TRUE),
     variants |-> <<[sku |-> Some(generate_product_slug(doc.item_code[1])),
                     price |-> [amount |-> Some(str(doc.standard_rate)),
                                currency |-> None],
                     weight |-> variant_weight(doc),
                     stock |-> None,
                     choices |-> Some(<< >>)]>>]

\* map_item_to_wix_product of the hooked module.  A key the product data
\* does not have is None; `weight` is physicalProperties.weight of the
\* variant.
map_item(doc) ==
    [name |-> product_name(doc),
     productType |-> Some("PHYSICAL"),
     slug |-> None,
     plainDescription |-> IF nonempty(doc.description) THEN doc.description
                          ELSE None,
     visible |-> Some(TRUE),
     variants |-> <<[sku |-> doc.item_code,
                     price |-> [amount |-> Some(str(doc.standard_rate)),
                                currency |-> None],
                     weight |-> variant_weight(doc),
                     stock |-> None,
                     choices |-> Some(<< >>)]>>]

\* map_item_to_wix_product of the inner module: a slug, a currency, a weight
\* with its unit and a stock entry; no productType and no visible.
map_item_inner(doc, cur) ==
    [name |-> product_name(doc),
     productType |-> None,
     slug |-> Some(generate_product_slug(doc.item_code[1])),
     plainDescription |-> IF nonempty(doc.description) THEN doc.description
                          ELSE Some(<< >>),
     visible |-> None,
     variants |-> <<[sku |-> doc.item_code,
                     price |-> [amount |-> Some(str(doc.standard_rate)),
                                currency |-> IF nonempty(cur) THEN cur
                                             ELSE Some(<<"U", "S", "D">>)],
                     weight |-> IF truthy(doc.weight_per_unit)
                                THEN Some([value |-> doc.weight_per_unit[1],
                                           unit |-> "kg"])
                                ELSE None,
                     stock |-> Some([trackInventory |-> TRUE,
                                     inStock |-> TRUE,
                                     quantity |->
                                         IF truthy(doc.projected_qty)
                                         THEN doc.projected_qty ELSE None]),
                     choices |-> None]>>]

\* map_item_to_wix_product(doc) of module m, under the default currency cur.
map_item_to_wix_product(m, doc, cur) ==
    IF m = HookedModule THEN map_item(doc) ELSE map_item_inner(doc, cur)

\* validate_wix_product_data(product_data): (is_valid, errors).
validate_wix_product_data(product) ==
    LET variants == product.variants
        errors ==
            (IF ~nonempty(product.name)
             THEN <<"Product name is required">> ELSE << >>)
            \o (IF product.productType = None
                THEN <<"Product type is required">> ELSE << >>)
            \o (IF Len(variants) = 0
                THEN <<"At least one variant is required">>
                ELSE SelectSeq([k \in 1..Len(variants) |->
                                   IF ~nonempty(variants[k].price.amount)
                                   THEN "Variant must have a price"
                                   ELSE ""],
                               LAMBDA e : e # ""))
    IN  [is_valid |-> Len(errors) = 0, errors |-> errors]

\* ------------------------------------------------------------- state machine

NoDoc == [disabled |-> 0, is_sales_item |-> 0, standard_rate |-> None,
          is_fixed_asset |-> 0]

Hooks == {"after_insert", "on_update"}

\* What a hook invocation leaves in `last`: the run without its database.
Seen(run) == [f \in (DOMAIN run) \ {"db", "exc"} |-> run[f]]

\* The record of a document event on item i: the hook that ran, the saved
\* document, should_sync_item's answer, the stored id and the custom field
\* before and after, whether the item's previous hook invocation made a
\* create call that failed, and the run.
Event(h, i, doc, run) ==
    [hook |-> h, item |-> i, doc |-> doc, check |-> should_sync_item(doc),
     idBefore |-> stored[i], idAfter |-> run.db.stored[i],
     fieldBefore |-> customField, fieldAfter |-> run.db.customField,
     retry |-> i \in failedCreate,
     run |-> Seen(run)]

\* No document is with the mapper.
NoItem == [item_code |-> Some(<<"A">>), item_name |-> None,
           description |-> None, standard_rate |-> None,
           weight_per_unit |-> None, projected_qty |-> None,
           disabled |-> 0, is_sales_item |-> 0]

MapIdle == item = NoItem /\ currency = None /\ payload = None /\ sent = None

\* An invocation of create_wix_product that has not started.
NoProc ==
    [pc |-> "idle", success |-> FALSE, wix_product_id |-> None,
     calls |-> << >>]

ProcIdle == proc = [i \in Items |-> NoProc]

\* No utility function is called.
NoCall == [fn |-> "none"]

UtilIdle == call = NoCall /\ result = None

\* Items that were saved before the app was installed exist already; none
\* is synced and the custom field does not exist yet.
Init ==
    /\ MapIdle
    /\ ProcIdle
    /\ UtilIdle
    /\ module \in Modules
    /\ inserted \in SUBSET Items
    /\ stored = [i \in Items |-> None]
    /\ customField = FALSE
    /\ products = [i \in Items |-> {}]
    /\ failedCreate = {}
    /\ last = [hook |-> "none", item |-> "none", doc |-> NoDoc,
               check |-> Ret(FALSE), idBefore |-> None, idAfter |-> None,
               fieldBefore |-> FALSE, fieldAfter |-> FALSE, retry |-> FALSE,
               run |-> Seen(Run0(DB))]

\* The hook returned (or raised): its effects on the database and the remote
\* side, and the record of what it did.
Returned(h, i, doc, run) ==
    /\ stored' = run.db.stored
    /\ customField' = run.db.customField
    /\ products' = run.db.products
    /\ failedCreate' = IF run.creates = 1 /\ ~run.apiOk
                       THEN failedCreate \cup {i}
                       ELSE failedCreate \ {i}
    /\ last' = Event(h, i, doc, run)
    /\ UNCHANGED <<module, mapvars, proc, utilvars>>

\* The remote API creates at most MaxProducts products.
WithinBounds(run) == generate_hash(run.db) <= MaxProducts + 1

\* doc_events["Item"]["after_insert"]: a new Item document is inserted and
\* create_wix_product runs on it.
after_insert ==
    \E i \in Items \ inserted, doc \in Docs :
        \E run \in create_wix_product(module, DB, i, doc) :
            /\ WithinBounds(run)
            /\ inserted' = inserted \cup {i}
            /\ Returned("after_insert", i, doc, run)

\* doc_events["Item"]["on_update"]: an Item document is saved and
\* update_wix_product runs on it.
on_update ==
    \E i \in inserted, doc \in Docs :
        \E run \in update_wix_product(module, DB, i, doc) :
            /\ WithinBounds(run)
            /\ UNCHANGED inserted
            /\ Returned("on_update", i, doc, run)

\* frappe.delete_doc("Item", ...): the document and its wix_product_id go;
\* no hook is bound to the deletion and the remote products stay.
delete_doc ==
    \E i \in inserted :
        /\ inserted' = inserted \ {i}
        /\ stored' = [stored EXCEPT ![i] = None]
        /\ failedCreate' = failedCreate \ {i}
        /\ last' = [Event("delete_doc", i, NoDoc, Run0(DB)) EXCEPT
                      !.idAfter = None]
        /\ UNCHANGED <<module, customField, products, mapvars, proc,
                       utilvars>>

Next == after_insert \/ on_update \/ delete_doc

Spec == Init /\ [][Next]_vars

\* One lifetime of every item: documents are inserted and saved, none is
\* deleted.  The hooks run one after the other, each to completion.
Lifetime == Init /\ [][after_insert \/ on_update]_vars

\* ------------------------------------------------------------ the mapper
\* The mapper and the create call of one invocation, on any Item document.

MapInit ==
    /\ module \in Modules
    /\ item \in ItemDocs
    /\ currency \in Currencies
    /\ payload = None
    /\ sent = None
    /\ inserted = {}
    /\ stored = [i \in Items |-> None]
    /\ customField = FALSE
    /\ products = [i \in Items |-> {}]
    /\ failedCreate = {}
    /\ last = [hook |-> "none", item |-> "none", doc |-> NoDoc,
               check |-> Ret(FALSE), idBefore |-> None, idAfter |-> None,
               fieldBefore |-> FALSE, fieldAfter |-> FALSE, retry |-> FALSE,
               run |-> Seen(Run0(DB))]
    /\ ProcIdle
    /\ UtilIdle

\* map_item_to_wix_product(doc) is called on the document.
map_item_call ==
    /\ payload = None
    /\ payload' = Some(map_item_to_wix_product(module, item, currency))
    /\ UNCHANGED <<module, hostvars, item, currency, sent, proc, utilvars>>

\* create_wix_product up to its create call, on a document the host
\* inserted (Item documents are named by their item_code, which is
\* mandatory): the eligibility test, the mapper, and the product data goes
\* to call_wix_create_product_api as the mapper built it.
create_call ==
    /\ sent = None
    /\ nonempty(item.item_code)
    /\ should_sync_item(item) = Ret(TRUE)
    /\ payload' = Some(map_item_to_wix_product(module, item, currency))
    /\ sent' = payload'
    /\ UNCHANGED <<module, hostvars, item, currency, proc, utilvars>>

MapNext == map_item_call \/ create_call

MapSpec == MapInit /\ [][MapNext]_vars

\* ---------------------------------------------------- interleaved invocations
\* Two Item documents are inserted in two requests at the same time: the
\* create_wix_product invocations of the two items run interleaved, one
\* frappe or remote call at a time.

InterleavedInit ==
    /\ module \in Modules
    /\ inserted = Items
    /\ stored = [i \in Items |-> None]
    /\ customField \in BOOLEAN
    /\ products = [i \in Items |-> {}]
    /\ failedCreate = {}
    /\ last = [hook |-> "none", item |-> "none", doc |-> NoDoc,
               check |-> Ret(FALSE), idBefore |-> None, idAfter |-> None,
               fieldBefore |-> FALSE, fieldAfter |-> FALSE, retry |-> FALSE,
               run |-> Seen(Run0(DB))]
    /\ MapIdle
    /\ UtilIdle
    /\ proc = [i \in Items |->
                [NoProc EXCEPT !.pc = "start",
                               !.calls = <<"create_wix_product">>]]

\* create_wix_product of an eligible item up to the answer of the create
\* call: an error or (hooked module) a success without id ends the
\* invocation, otherwise store_wix_product_id is entered.
p_create_call ==
    \E i \in Items :
        /\ proc[i].pc = "start"
        /\ \E api \in call_wix_create_product_api(DB, i) :
               /\ products' = api.db.products
               /\ proc' = [proc EXCEPT ![i] =
                     [pc |-> IF ~api.success THEN "done"
                             ELSE IF module = HookedModule
                                     /\ ~truthy(api.product_id) THEN "done"
                             ELSE "exists",
                      success |-> api.success,
                      wix_product_id |-> api.product_id,
                      calls |-> proc[i].calls]]
        /\ UNCHANGED <<module, inserted, stored, customField, failedCreate,
                       last, mapvars, utilvars>>

\* store_wix_product_id: frappe.db.exists("Custom Field", ...); when it
\* raises, the error is logged and the invocation ends.
p_exists ==
    \E i \in Items :
        /\ proc[i].pc = "exists"
        /\ \E pc \in {IF customField THEN "set_value" ELSE "insert", "done"} :
               proc' = [proc EXCEPT ![i].pc = pc]
        /\ UNCHANGED <<module, hostvars, mapvars, utilvars>>

\* create_wix_product_id_field: the insert of the Custom Field; it raises
\* when the other invocation inserted the field in the meantime (or for a
\* reason of its own); the error is logged and store_wix_product_id goes on.
p_insert ==
    \E i \in Items :
        /\ proc[i].pc = "insert"
        /\ customField' \in {TRUE, customField}
        /\ proc' = [proc EXCEPT ![i].pc = "set_value"]
        /\ UNCHANGED <<module, inserted, stored, products, failedCreate,
                       last, mapvars, utilvars>>

\* store_wix_product_id: frappe.db.set_value on the item's own row and the
\* commit; it raises without the column, or for a reason of its own, and
\* the error is logged.  The invocation ends.
p_set_value ==
    \E i \in Items :
        /\ proc[i].pc = "set_value"
        /\ \/ customField
              /\ stored' = [stored EXCEPT ![i] = proc[i].wix_product_id]
           \/ UNCHANGED stored
        /\ proc' = [proc EXCEPT ![i].pc = "done"]
        /\ UNCHANGED <<module, inserted, customField, products, failedCreate,
                       last, mapvars, utilvars>>

InterleavedNext == p_create_call \/ p_exists \/ p_insert \/ p_set_value

Interleaved == InterleavedInit /\ [][InterleavedNext]_vars

\* ------------------------------------------ invocations of the two hooks
\* Each item has one invocation under way, of create_wix_product
\* (after_insert) or of update_wix_product (on_update); proc[i].calls lists
\* the hook functions the invocation entered, in order.

InvocationsInit ==
    /\ module \in Modules
    /\ inserted = Items
    /\ \E synced \in {{}, {"SKU1"}} :
           /\ stored = [i \in Items |-> IF i \in synced THEN Some(1) ELSE None]
           /\ products = [i \in Items |-> IF i \in synced THEN {1} ELSE {}]
           /\ customField \in (IF synced = {} THEN BOOLEAN ELSE {TRUE})
           /\ \E h \in [Items -> {"create_wix_product", "update_wix_product"}] :
                  /\ \A i \in synced : h[i] = "update_wix_product"
                  /\ proc = [i \in Items |->
                        [NoProc EXCEPT
                            !.pc = IF h[i] = "create_wix_product"
                                   THEN "start" ELSE "update",
                            !.calls = <<h[i]>>]]
    /\ failedCreate = {}
    /\ last = [hook |-> "none", item |-> "none", doc |-> NoDoc,
               check |-> Ret(FALSE), idBefore |-> None, idAfter |-> None,
               fieldBefore |-> FALSE, fieldAfter |-> FALSE, retry |-> FALSE,
               run |-> Seen(Run0(DB))]
    /\ MapIdle
    /\ UtilIdle

\* update_wix_product that starts over when it finds no stored id.
after_get_wix_product_id_again(p, wix_product_id) ==
    IF ~truthy(wix_product_id)
    THEN [p EXCEPT !.pc = "update"]
    ELSE [p EXCEPT !.pc = "update_call", !.wix_product_id = wix_product_id]

\* update_wix_product after get_wix_product_id: without an id it calls
\* create_wix_product(doc, method) and returns; with one it goes on to the
\* update call.
after_get_wix_product_id(p, wix_product_id) ==
    IF ~truthy(wix_product_id)
    THEN [p EXCEPT !.pc = "start",
                   !.calls = Append(@, "create_wix_product")]
    ELSE [p EXCEPT !.pc = "update_call", !.wix_product_id = wix_product_id]

\* update_wix_product up to should_sync_item: the item is skipped (or the
\* check raises and the error is logged), or the invocation goes on.
u_should_sync_item ==
    \E i \in Items :
        /\ proc[i].pc = "update"
        /\ \E pc \in {"lookup", "done"} : proc' = [proc EXCEPT ![i].pc = pc]
        /\ UNCHANGED <<module, hostvars, mapvars, utilvars>>

\* update_wix_product: get_wix_product_id and the branch on its answer.
u_get_wix_product_id ==
    \E i \in Items :
        /\ proc[i].pc = "lookup"
        /\ \E wix_product_id \in get_wix_product_id(DB, i) :
               proc' = [proc EXCEPT ![i] =
                           after_get_wix_product_id(proc[i], wix_product_id)]
        /\ UNCHANGED <<module, hostvars, mapvars, utilvars>>

\* update_wix_product: the mapping and call_wix_update_product_api; the
\* answer is reported and the invocation ends.
u_update_call ==
    \E i \in Items :
        /\ proc[i].pc = "update_call"
        /\ \E ok \in call_wix_update_product_api(proc[i].wix_product_id) :
               proc' = [proc EXCEPT ![i].pc = "done", ![i].success = ok]
        /\ UNCHANGED <<module, hostvars, mapvars, utilvars>>

InvocationsNext ==
    \/ u_should_sync_item
    \/ u_get_wix_product_id
    \/ u_update_call
    \/ p_create_call
    \/ p_exists
    \/ p_insert
    \/ p_set_value

\* A hook is a Python call in a request worker: while a step of it is
\* possible, a step is taken.
Invocations ==
    InvocationsInit /\ [][InvocationsNext]_vars /\ WF_vars(InvocationsNext)

\* ----------------------------------------------------------------- utilities
\* The functions beside the hooks: the configuration check, the integration
\* test, the MCP sync path and the API client.

\* Python truthiness of None / a str given as a whole: None and "" are falsy.
is_set(v) == v # None /\ v[1] # ""

SiteKeys == {"dev", "kokofresh"}

SiteConfigs == [site_id : {None, Some(""), Some("site-1")}, name : {"site"}]

\* Settings as get_wix_settings could return them.
Settings == [enabled : BOOLEAN,
             default_site : {None, Some(""), Some("dev"), Some("gone")},
             sites : UNION {[D -> SiteConfigs] : D \in SUBSET SiteKeys}]

\* validate_wix_configuration that does not look at the site's site_id.
validate_wix_configuration_no_site_id(settings) ==
    IF ~settings.enabled
    THEN <<FALSE, "Wix integration is disabled">>
    ELSE IF ~is_set(settings.default_site)
    THEN <<FALSE, "No default Wix site configured">>
    ELSE IF settings.default_site[1] \notin DOMAIN settings.sites
    THEN <<FALSE, "Default site not found in configured sites">>
    ELSE <<TRUE, "Configuration is valid">>

\* validate_wix_configuration(), on the settings get_wix_settings() returns:
\* (is_valid, message).
validate_wix_configuration(settings) ==
    IF ~settings.enabled
    THEN <<FALSE, "Wix integration is disabled">>
    ELSE IF ~is_set(settings.default_site)
    THEN <<FALSE, "No default Wix site configured">>
    ELSE IF settings.default_site[1] \notin DOMAIN settings.sites
    THEN <<FALSE, "Default site not found in configured sites">>
    ELSE IF ~is_set(settings.sites[settings.default_site[1]].site_id)
    THEN <<FALSE, "No site ID configured">>
    ELSE <<TRUE, "Configuration is valid">>

\* What a check of test_integration meets: the thing it looks for is there,
\* is not there, or the look-up raises.
Outcomes == {"yes", "no", "raise"}

\* test_app_installation: "wix_integration" in frappe.get_installed_apps().
test_app_installation(o) ==
    [name |-> "App Installation", passed |-> o = "yes"]

\* test_configuration: validate_wix_configuration() on the shipped settings,
\* unless the import raises.
test_configuration(o) ==
    [name |-> "Configuration",
     passed |-> IF o = "raise" THEN FALSE
                ELSE validate_wix_configuration(get_wix_settings)[1]]

\* test_custom_fields: frappe.db.exists("Custom Field", ...).
test_custom_fields(o) ==
    [name |-> "Custom Fields", passed |-> o = "yes"]

\* test_hooks_configuration: both Item hooks are in doc_events, unless the
\* import raises.
test_hooks_configuration(o) ==
    [name |-> "Hooks Configuration",
     passed |-> IF o = "raise" THEN FALSE
                ELSE "after_insert" \in Hooks /\ "on_update" \in Hooks]

\* test_api_connectivity: a placeholder that passes.
test_api_connectivity ==
    [name |-> "API Connectivity", passed |-> TRUE]

\* test_integration that reports 'failed' as soon as one check failed.
test_integration_any_failed(env) ==
    LET tests == <<test_app_installation(env.app),
                   test_configuration(env.config),
                   test_custom_fields(env.fields),
                   test_hooks_configuration(env.hooks),
                   test_api_connectivity>>
        failed_tests == SelectSeq(tests, LAMBDA t : ~t.passed)
    IN  [overall_status |-> IF failed_tests = << >> THEN "passed"
                            ELSE "failed",
         tests |-> tests]

\* test_integration(): the five checks in order, then the overall status.
test_integration(env) ==
    LET tests == <<test_app_installation(env.app),
                   test_configuration(env.config),
                   test_custom_fields(env.fields),
                   test_hooks_configuration(env.hooks),
                   test_api_connectivity>>
        failed_tests == SelectSeq(tests, LAMBDA t : ~t.passed)
    IN  [overall_status |-> IF failed_tests = << >> THEN "passed"
                            ELSE IF Len(failed_tests) = Len(tests)
                            THEN "failed"
                            ELSE "partial",
         tests |-> tests]

\* is_mcp_available once MCP tools are there.
is_mcp_available_yes == TRUE

\* is_mcp_available(): the placeholder returns False.
is_mcp_available == FALSE

\* A result of the MCP functions: {"success": False, "error": msg}.
McpError(msg) ==
    [raised |-> FALSE, success |-> FALSE, error |-> Some(msg),
     product_id |-> None]

\* call_wix_mcp_api: raises inside its try when MCP is not available, and
\* returns the error of the exception.
call_wix_mcp_api ==
    IF ~is_mcp_available THEN McpError("MCP tools not available")
    ELSE [raised |-> FALSE, success |-> TRUE, error |-> None,
          product_id |-> None]

\* create_product_via_mcp: the id of response["data"] (the placeholder's
\* data is empty) on success, the error of the response otherwise.
create_product_via_mcp ==
    IF call_wix_mcp_api.success
    THEN [raised |-> FALSE, success |-> TRUE, error |-> None,
          product_id |-> None]
    ELSE [McpError("Unknown MCP error") EXCEPT
              !.error = IF call_wix_mcp_api.error # None
                        THEN call_wix_mcp_api.error ELSE @]

\* update_product_via_mcp.
update_product_via_mcp(product_id) ==
    IF call_wix_mcp_api.success
    THEN [raised |-> FALSE, success |-> TRUE, error |-> None,
          product_id |-> product_id]
    ELSE [McpError("Unknown MCP error") EXCEPT
              !.error = IF call_wix_mcp_api.error # None
                        THEN call_wix_mcp_api.error ELSE @]

\* sync_frappe_to_wix_via_mcp(item_doc, operation): the mapper (may raise),
\* then create, or update after the id lookup (may raise; without an id,
\* create), or ValueError for another operation; every exception becomes
\* {"success": False, "error": "MCP sync failed: ..."}.  env.wix_product_id
\* is the item's stored id, which the function only reads.
sync_frappe_to_wix_via_mcp(env) ==
    [stored |-> env.wix_product_id,
     ret |-> IF env.mapper = "raise" THEN McpError("MCP sync failed")
             ELSE IF env.operation = "create" THEN create_product_via_mcp
             ELSE IF env.operation = "update"
             THEN IF env.lookup = "raise" THEN McpError("MCP sync failed")
                  ELSE IF ~truthy(env.wix_product_id)
                  THEN create_product_via_mcp
                  ELSE update_product_via_mcp(env.wix_product_id)
             ELSE McpError("MCP sync failed")]

\* ---------------------------------------------------------------- API client

Methods == {"GET", "POST", "PUT", "DELETE"}

\* Endpoints, as their path segments: the products, one product, and
\* something else.
Endpoints == {<<"stores", "v3", "products">>,
              <<"stores", "v3", "products", "p1">>,
              <<"stores", "v3", "orders">>}

\* Request data: none, a product without a name, a product with a name.
ProductData == {None, Some([name |-> None]), Some([name |-> Some("Widget")])}

\* "/stores/v3/products" in endpoint
in_products(endpoint) ==
    Len(endpoint) >= 3 /\ SubSeq(endpoint, 1, 3) = <<"stores", "v3", "products">>

\* "/stores/v3/products/" in endpoint
in_product(endpoint) == in_products(endpoint) /\ Len(endpoint) >= 4

\* (True, {"product": product})
ApiOk(product) ==
    [success |-> TRUE, response |-> [product |-> Some(product), error |-> None]]

\* (False, {"error": msg})
ApiError(msg) ==
    [success |-> FALSE, response |-> [product |-> None, error |-> Some(msg)]]

\* make_wix_api_call that answers an unsupported call with success and the
\* error in the body.
make_wix_api_call_unsupported_ok(method, endpoint, data, fault) ==
    IF fault \/ data = None THEN ApiError("Unexpected error")
    ELSE [success |-> TRUE,
          response |-> [product |-> None,
                        error |-> Some("Unsupported API call")]]

\* make_wix_api_call(method, endpoint, data): the simulated answers.  An
\* exception in the try (fault; data.get on None) gives the error shape.
make_wix_api_call(method, endpoint, data, fault) ==
    IF fault THEN ApiError("Unexpected error")
    ELSE IF method = "POST" /\ in_products(endpoint)
    THEN IF data = None THEN ApiError("Unexpected error")
         ELSE ApiOk([id |-> "product_hash",
                     name |-> IF data[1].name # None THEN data[1].name
                              ELSE Some("Unknown Product"),
                     visible |-> TRUE])
    ELSE IF method = "PUT" /\ in_product(endpoint)
    THEN IF data = None THEN ApiError("Unexpected error")
         ELSE ApiOk([id |-> endpoint[Len(endpoint)],
                     name |-> IF data[1].name # None THEN data[1].name
                              ELSE Some("Updated Product"),
                     visible |-> TRUE])
    ELSE ApiError("Unsupported API call")

\* call_wix_create_product_api as shipped in the hooked module: the
\* simulated product, or the error shape when the try raises (fault;
\* product_data["product"]["name"] missing).
call_wix_create_product_api_stub(product_data, fault) ==
    IF fault \/ product_data = None \/ product_data[1].name = None
    THEN ApiError("error")
    ELSE ApiOk([id |-> "wix_hash", name |-> product_data[1].name,
                visible |-> TRUE])

\* call_wix_update_product_api as shipped in the hooked module.
call_wix_update_product_api_stub(product_id, product_data, fault) ==
    IF fault \/ product_data = None \/ product_data[1].name = None
    THEN ApiError("error")
    ELSE ApiOk([id |-> product_id, name |-> product_data[1].name,
                visible |-> TRUE])

\* -------------------------------------------------- calls of the utilities

UtilInit ==
    /\ module \in Modules
    /\ \/ call \in [fn : {"validate_wix_configuration"}, settings : Settings]
       \/ call = [fn |-> "validate_wix_configuration",
                  settings |-> get_wix_settings]
       \/ call \in [fn : {"test_integration"}, app : Outcomes,
                    config : {"yes", "raise"}, fields : Outcomes,
                    hooks : {"yes", "raise"}]
       \/ call \in [fn : {"sync_frappe_to_wix_via_mcp"},
                    operation : {"create", "update", "delete"},
                    wix_product_id : {None, Some(1)},
                    lookup : {"yes", "raise"}, mapper : {"yes", "raise"}]
       \/ call \in [fn : {"make_wix_api_call"}, method : Methods,
                    endpoint : Endpoints, data : ProductData,
                    fault : BOOLEAN]
       \/ call \in [fn : {"call_wix_create_product_api",
                          "call_wix_update_product_api"},
                    data : ProductData, fault : BOOLEAN]
    /\ result = None
    /\ inserted = {}
    /\ stored = [i \in Items |-> None]
    /\ customField = FALSE
    /\ products = [i \in Items |-> {}]
    /\ failedCreate = {}
    /\ last = [hook |-> "none", item |-> "none", doc |-> NoDoc,
               check |-> Ret(FALSE), idBefore |-> None, idAfter |-> None,
               fieldBefore |-> FALSE, fieldAfter |-> FALSE, retry |-> FALSE,
               run |-> Seen(Run0(DB))]
    /\ MapIdle
    /\ ProcIdle

\* The call returns r.
Returns(fn, r) ==
    /\ result = None
    /\ call.fn = fn
    /\ result' = Some(r)
    /\ UNCHANGED <<module, hostvars, mapvars, proc, call>>

validate_wix_configuration_call ==
    /\ call.fn = "validate_wix_configuration"
    /\ Returns(call.fn, validate_wix_configuration(call.settings))

test_integration_call ==
    /\ call.fn = "test_integration"
    /\ Returns(call.fn, test_integration(call))

sync_frappe_to_wix_via_mcp_call ==
    /\ call.fn = "sync_frappe_to_wix_via_mcp"
    /\ Returns(call.fn, sync_frappe_to_wix_via_mcp(call))

make_wix_api_call_call ==
    /\ call.fn = "make_wix_api_call"
    /\ Returns(call.fn, make_wix_api_call(call.method, call.endpoint,
                                          call.data, call.fault))

call_wix_create_product_api_call ==
    /\ call.fn = "call_wix_create_product_api"
    /\ Returns(call.fn,
               call_wix_create_product_api_stub(call.data, call.fault))

call_wix_update_product_api_call ==
    /\ call.fn = "call_wix_update_product_api"
    /\ Returns(call.fn,
               call_wix_update_product_api_stub("p1", call.data, call.fault))

UtilNext ==
    \/ validate_wix_configuration_call
    \/ test_integration_call
    \/ sync_frappe_to_wix_via_mcp_call
    \/ make_wix_api_call_call
    \/ call_wix_create_product_api_call
    \/ call_wix_update_product_api_call

Utilities == UtilInit /\ [][UtilNext]_vars

\* -------------------------------------------------------------------- claims

\* The latest event ran one of the two hooks.
HookRan == last.hook \in Hooks

\* The eligibility policy: not disabled, a sales item, a standard rate that
\* is present and greater than 0.
IsEligible(doc) ==
    /\ doc.disabled = 0
    /\ doc.is_sales_item = 1
    /\ doc.standard_rate # None
    /\ doc.standard_rate[1] > 0

\* The remote API made the call of this invocation succeed (and a create
\* call returned a product id).
RemoteSucceeded ==
    /\ last.run.creates + last.run.updates = 1
    /\ last.run.apiOk
    /\ last.run.creates = 1 => truthy(last.run.returned)

\* C1: one sync invocation of the hooked module for an eligible item issues
\* exactly one create call and no update call when the item has no stored
\* wix_product_id, and exactly one update call and no create call when it
\* has one.
C1_CreateUpdateRouting ==
    (module = HookedModule /\ HookRan /\ IsEligible(last.doc)) =>
        IF truthy(last.idBefore)
        THEN last.run.updates = 1 /\ last.run.creates = 0
        ELSE last.run.creates = 1 /\ last.run.updates = 0

\* C2: once an item has a stored wix_product_id, a hook invocation leaves it
\* with the same wix_product_id.
C2_IdNeverOverwritten ==
    [][\A i \in inserted \cap inserted' :
           truthy(stored[i]) => stored'[i] = stored[i]]_vars

\* C3: once an item has a non-empty stored wix_product_id, no hook invocation
\* leaves it with an empty or null one, in either wix_api module.
C3_NoReturnToNeverSynced ==
    [][\A i \in inserted \cap inserted' :
           truthy(stored[i]) => truthy(stored'[i])]_vars

\* C4: after a create call that the remote API reports as successful, the id
\* it returned is the stored wix_product_id when the hook returns.
C4_ReturnedIdIsStored ==
    (/\ module = HookedModule
     /\ HookRan
     /\ last.run.creates = 1
     /\ last.run.apiOk
     /\ truthy(last.run.returned)) => last.idAfter = last.run.returned

\* C5: a failed create or update call leaves the stored wix_product_id as it
\* was, and the sync invocation that follows a failed create call of an item
\* without a stored id takes the create path again, never the update path.
C5_FailedSyncKeepsState ==
    HookRan =>
        /\ (last.run.creates + last.run.updates = 1 /\ ~last.run.apiOk)
               => last.idAfter = last.idBefore
        /\ (last.retry /\ ~truthy(last.idBefore))
               => /\ last.run.updates = 0
                  /\ last.run.path \in {"create", "skip"}
                  /\ IsEligible(last.doc)
                         => last.run.path = "create" /\ last.run.creates = 1

\* A create call failed for an item without a stored id, and the next
\* invocation for that item, through on_update, made a create call again
\* (which failed too).
C5_Witness ==
    /\ last.hook = "on_update"
    /\ last.retry
    /\ ~truthy(last.idBefore)
    /\ last.run.creates = 1
    /\ ~last.run.apiOk
    /\ last.idAfter = None

\* C6: create_wix_product and update_wix_product never raise to the document
\* event that called them.
C6_HooksNeverRaise ==
    (module = HookedModule /\ HookRan) => ~last.run.raised

\* C7: a hook invocation for an ineligible item makes no remote call and
\* leaves every stored wix_product_id, the custom field and the remote
\* products as they were.
C7_IneligibleNoEffect ==
    [][(last'.hook \in Hooks /\ ~IsEligible(last'.doc)) =>
           /\ last'.run.creates = 0
           /\ last'.run.updates = 0
           /\ stored' = stored
           /\ customField' = customField
           /\ products' = products]_vars

\* An ineligible item that was synced before is saved: the hook skips it.
C7_Witness ==
    /\ last.hook = "on_update"
    /\ ~IsEligible(last.doc)
    /\ truthy(last.idBefore)
    /\ last.idAfter = last.idBefore
    /\ last.run.path = "skip"

C9_FallbackCreates ==
    (/\ module = HookedModule
     /\ last.hook = "on_update"
     /\ IsEligible(last.doc)
     /\ last.run.fellBack) =>
        /\ last.run.creates = 1
        /\ last.run.updates = 0
        /\ (last.run.apiOk /\ truthy(last.run.returned))
               => last.idAfter = last.run.returned
        /\ last.run.apiOk
               => ~last.run.logged /\ ~last.run.raised /\ last.run.msg # "red"

\* C10: with a succeeding remote API, the sync of an eligible item without a
\* stored id ends Created with the returned id stored, and the sync of an
\* eligible item with the stored id X ends Updated with the update call
\* addressed to X and X still stored.
C10_CreatedThenUpdated ==
    (/\ module = HookedModule
     /\ HookRan
     /\ IsEligible(last.doc)
     /\ RemoteSucceeded) =>
        IF truthy(last.idBefore)
        THEN /\ last.run.updates = 1
             /\ last.run.creates = 0
             /\ last.run.target = last.idBefore
             /\ last.idAfter = last.idBefore
        ELSE /\ last.run.creates = 1
             /\ last.run.msg = "green"
             /\ last.idAfter = last.run.returned

\* C11: with the hook invocations of an item running one after the other,
\* at most one create call for the item succeeds at the remote API in the
\* item's lifetime: the item never has two remote products.
C11_AtMostOneProduct ==
    \A i \in Items : Cardinality(products[i]) <= 1

\* C13: one hook invocation makes at most one remote call, create or update,
\* also when the call fails and on the fallback from update to create.
C13_NoAutomaticRetry ==
    HookRan => last.run.creates + last.run.updates <= 1

\* The fallback's create call failed and the invocation ended there; so did
\* an invocation whose update call failed.
C13_Witness ==
    /\ last.hook = "on_update"
    /\ ~last.run.apiOk
    /\ last.run.creates + last.run.updates = 1
    /\ last.run.fellBack \/ last.run.updates = 1
    /\ last.retry

\* C14: a create response that reports success without a product id is
\* handled like a failed call: the failure goes through the error path, the
\* stored wix_product_id stays as it was and no success message is shown.
C14_SuccessWithoutIdIsFailure ==
    (/\ HookRan
     /\ last.run.creates = 1
     /\ last.run.apiOk
     /\ ~truthy(last.run.returned)) =>
        /\ last.run.logged \/ last.run.raised
        /\ last.idAfter = last.idBefore
        /\ last.run.msg # "green"

\* The product data the mapper built.
Mapped == payload # None

\* C15: no create call is made with product data that fails
\* validate_wix_product_data.
C15_InvalidPayloadNeverSent ==
    sent # None => validate_wix_product_data(sent[1]).is_valid

\* C16: the variant's sku of the product data is the item's item_code as it
\* is, in both wix_api modules.
C16_SkuIsItemCode ==
    Mapped => payload[1].variants[1].sku = item.item_code

\* An item_code that its slug differs from went through the mapper.
C16_Witness ==
    /\ Mapped
    /\ nonempty(item.item_code)
    /\ generate_product_slug(item.item_code[1]) # item.item_code[1]
    /\ payload[1].variants[1].sku = item.item_code

\* C18: the product data has visible = true, for every item and in both
\* wix_api modules.
C18_AlwaysVisible ==
    Mapped => payload[1].visible = Some(TRUE)

\* C19: the name of the product data is the item's item_name when that is
\* non-empty and its item_code otherwise, so it is non-empty whenever the
\* item_code is.
C19_NameOrCode ==
    Mapped =>
        /\ payload[1].name = IF nonempty(item.item_name) THEN item.item_name
                             ELSE item.item_code
        /\ nonempty(item.item_code) => nonempty(payload[1].name)

\* An item with an empty item_name got its item_code for a name.
C19_Witness ==
    /\ Mapped
    /\ item.item_name = Some(<< >>)
    /\ nonempty(item.item_code)
    /\ payload[1].name = item.item_code

\* C20: the variant's physicalProperties carries a weight exactly when the
\* item's weight_per_unit is set and not zero.
C20_WeightWhenSet ==
    Mapped =>
        (payload[1].variants[1].weight # None <=>
            (item.weight_per_unit # None /\ item.weight_per_unit[1] # 0))

\* An item with weight_per_unit = 0 went through the mapper, which left the
\* weight out.
C20_Witness ==
    /\ Mapped
    /\ item.weight_per_unit = Some(0)
    /\ payload[1].variants[1].weight = None

\* C12: with the invocations of two different items interleaved, each
\* item's stored wix_product_id at the end is the id its own create call
\* returned.
C12_OwnIdStored ==
    \A i \in Items :
        (/\ proc[i].pc = "done"
         /\ proc[i].success
         /\ truthy(proc[i].wix_product_id))
            => stored[i] = proc[i].wix_product_id

\* C21: the product data carries the default currency as its price
\* currency (the host's global default, or USD without one), in both wix_api
\* modules.
C21_DefaultCurrency ==
    Mapped =>
        payload[1].variants[1].price.currency =
            IF nonempty(currency) THEN currency ELSE Some(<<"U", "S", "D">>)

\* C23: the remote calls of the hooked module are made for the default site
\* of the settings, which is also the site get_wix_site_id() gives.
C23_DefaultSiteUsed ==
    (module = HookedModule /\ sent # None) =>
        /\ Some(site_id_of_call(module)) =
               get_wix_settings.sites[get_wix_settings.default_site[1]].site_id
        /\ site_id_of_call(module) = get_wix_site_id

\* C29: the product data of an item that passes should_sync_item and has a
\* non-empty item_code passes validate_wix_product_data without errors, in
\* both wix_api modules.
C29_MappedPayloadIsValid ==
    (/\ Mapped
     /\ should_sync_item(item) = Ret(TRUE)
     /\ nonempty(item.item_code)) =>
        validate_wix_product_data(payload[1]) =
            [is_valid |-> TRUE, errors |-> << >>]

\* C26: an update_wix_product invocation that resolved a stored id and made
\* the update call leaves the item's wix_product_id and the custom field as
\* they were, whether the call succeeded or failed.
C26_UpdateWritesNothing ==
    (last.hook = "on_update" /\ last.run.updates = 1) =>
        /\ last.idAfter = last.idBefore
        /\ last.fieldAfter = last.fieldBefore

\* The update call of a synced item failed, and the item kept its id.
C26_Witness ==
    /\ last.hook = "on_update"
    /\ last.run.updates = 1
    /\ ~last.run.apiOk
    /\ truthy(last.idBefore)
    /\ last.run.target = last.idBefore
    /\ last.idAfter = last.idBefore

\* C27: the hooked module creates the custom field only in an invocation
\* whose create call succeeded with an id, and an item has a stored
\* wix_product_id only when the custom field exists.
C27_FieldCreatedLazily ==
    /\ (module = HookedModule /\ HookRan
        /\ last.fieldAfter /\ ~last.fieldBefore)
           => (/\ last.run.creates = 1
               /\ last.run.apiOk
               /\ truthy(last.run.returned))
    /\ \A i \in Items : truthy(stored[i]) => customField

\* The first successful create call: the field did not exist, the
\* invocation created it and stored the id.
C27_Witness ==
    /\ module = HookedModule
    /\ HookRan
    /\ ~last.fieldBefore
    /\ last.fieldAfter
    /\ truthy(last.idAfter)
    /\ last.idAfter = last.run.returned


\* C22: every result of the API client (make_wix_api_call and the two
\* hooked calls) is either a success with a product object and no error
\* field, or a failure with an error field and no product object.
C22_ExactlyOneShape ==
    (/\ call.fn \in {"make_wix_api_call", "call_wix_create_product_api",
                     "call_wix_update_product_api"}
     /\ result # None)
    => \/ /\ result[1].success
          /\ result[1].response.product # None
          /\ result[1].response.error = None
       \/ /\ ~result[1].success
          /\ result[1].response.error # None
          /\ result[1].response.product = None

\* An unsupported call (a GET) has been answered.
C22_Witness ==
    /\ call.fn = "make_wix_api_call"
    /\ call.method = "GET"
    /\ ~call.fault
    /\ call.data # None
    /\ result # None
    /\ ~result[1].success

\* C24: validate_wix_configuration answers valid exactly when the
\* integration is enabled, a default site key is set, the key is in the site
\* table and its entry has a non-empty site_id; otherwise the message is that
\* of the first failing check in this order; the shipped settings are valid.
C24_ValidExactlyWhenConfigured ==
    (call.fn = "validate_wix_configuration" /\ result # None)
    => LET s == call.settings
           enabled == s.enabled
           keySet == s.default_site # None /\ s.default_site[1] # ""
           inTable == keySet /\ s.default_site[1] \in DOMAIN s.sites
           hasId == /\ inTable
                    /\ s.sites[s.default_site[1]].site_id # None
                    /\ s.sites[s.default_site[1]].site_id[1] # ""
       IN  /\ result[1][1] = (enabled /\ keySet /\ inTable /\ hasId)
           /\ result[1][2] =
                  IF ~enabled THEN "Wix integration is disabled"
                  ELSE IF ~keySet THEN "No default Wix site configured"
                  ELSE IF ~inTable
                  THEN "Default site not found in configured sites"
                  ELSE IF ~hasId THEN "No site ID configured"
                  ELSE "Configuration is valid"
           /\ (s = get_wix_settings => result[1][1])

\* The default site is in the table and its entry has an empty site_id.
C24_Witness ==
    /\ call.fn = "validate_wix_configuration"
    /\ result # None
    /\ call.settings.enabled
    /\ call.settings.default_site = Some("dev")
    /\ "dev" \in DOMAIN call.settings.sites
    /\ call.settings.sites["dev"].site_id = Some("")
    /\ result[1] = <<FALSE, "No site ID configured">>

\* C25: test_integration records all five checks in order; the status is
\* 'passed' exactly when no check failed, 'failed' exactly when every check
\* failed and 'partial' otherwise; a check that raises is recorded as failed
\* and the checks after it still run.
C25_StatusFromChecks ==
    (call.fn = "test_integration" /\ result # None)
    => LET tests == result[1].tests
           status == result[1].overall_status
           failed == {k \in DOMAIN tests : ~tests[k].passed}
       IN  /\ [k \in DOMAIN tests |-> tests[k].name] =
                  <<"App Installation", "Configuration", "Custom Fields",
                    "Hooks Configuration", "API Connectivity">>
           /\ (status = "passed") = (failed = {})
           /\ (status = "failed") = (failed = DOMAIN tests)
           /\ (status = "partial") = (failed # {} /\ failed # DOMAIN tests)
           /\ (call.app = "raise" => 1 \in failed)
           /\ (call.config = "raise" => 2 \in failed)
           /\ (call.fields = "raise" => 3 \in failed)
           /\ (call.hooks = "raise" => 4 \in failed)

\* The first check raised and the status is 'partial'.
C25_Witness ==
    /\ call.fn = "test_integration"
    /\ call.app = "raise"
    /\ result # None
    /\ result[1].overall_status = "partial"
    /\ Len(result[1].tests) = 5

\* C30: while MCP is unavailable, sync_frappe_to_wix_via_mcp never raises,
\* for any item and any operation (an unsupported one too); its result has
\* success = false and an error message; the item's wix_product_id is what
\* it was.
C30_McpSyncInert ==
    (call.fn = "sync_frappe_to_wix_via_mcp" /\ result # None)
    => /\ ~result[1].ret.raised
       /\ ~result[1].ret.success
       /\ is_set(result[1].ret.error)
       /\ result[1].stored = call.wix_product_id

\* An update of an item with a stored id, and an unsupported operation,
\* have returned.
C30_Witness ==
    /\ call.fn = "sync_frappe_to_wix_via_mcp"
    /\ call.operation \in {"update", "delete"}
    /\ call.mapper = "yes"
    /\ call.lookup = "yes"
    /\ truthy(call.wix_product_id)
    /\ result # None

\* How far an invocation is from its return, by its position.
rank(p) ==
    CASE p.pc = "update" -> 7
      [] p.pc = "lookup" -> 6
      [] p.pc = "start" -> 5
      [] p.pc = "exists" -> 4
      [] p.pc = "insert" -> 3
      [] p.pc = "set_value" -> 2
      [] p.pc = "update_call" -> 1
      [] OTHER -> 0

\* C28: every invocation of create_wix_product and update_wix_product
\* returns after a bounded number of steps (each step brings it closer to
\* its return, and it does return); update_wix_product falls back to
\* create_wix_product at most once, and create_wix_product never enters
\* update_wix_product.
C28_EveryInvocationReturns ==
    /\ [][\A i \in Items :
              proc'[i] # proc[i] => rank(proc'[i]) < rank(proc[i])]_vars
    /\ <>(\A i \in Items : proc[i].pc = "done")
    /\ [](\A i \in Items :
              proc[i].calls \in
                  {<<"create_wix_product">>, <<"update_wix_product">>,
                   <<"update_wix_product", "create_wix_product">>})

\* An update without a stored id fell back to create_wix_product and
\* returned; an update with a stored id returned.
C28_Witness ==
    /\ proc["SKU2"].calls = <<"update_wix_product", "create_wix_product">>
    /\ proc["SKU2"].pc = "done"
    /\ proc["SKU1"].calls = <<"update_wix_product">>
    /\ proc["SKU1"].pc = "done"
    /\ truthy(proc["SKU1"].wix_product_id)

====
